---- MODULE Spec2Model ----
\* A model of tracesix (src/src/lib.rs): the process-wide logging pipeline that
\* Logger::new installs once through LOGGER_INIT, the threshold EnvFilter
\* resolves from RUST_LOG and the options, and the line CustomFormat::format_event
\* renders for every accepted event.
EXTENDS Integers, Sequences, FiniteSets, TLC

\* ---------------------------------------------------------------- bounds
NumThreads == 2
MaxCalls == 2
MaxEmits == 2

Threads == 1..NumThreads

\* ---------------------------------------------------------------- values
\* Option<T> and Result<T, E> are sequences of length at most one:
\* <<>> is None / Err(_), <<v>> is Some(v) / Ok(v).
None == <<>>
Some(v) == <<v>>
Err == <<>>
Ok(v) == <<v>>

\* tracing::Level in the order TRACE < DEBUG < INFO < WARN < ERROR.
TRACE == 1
DEBUG == 2
INFO == 3
WARN == 4
ERROR == 5
Levels == {TRACE, DEBUG, INFO, WARN, ERROR}

\* The directive strings EnvFilter parses to a global level, and one string it
\* rejects (a directive whose level part is no level).
LevelOf == [s \in {"trace", "debug", "info", "warn", "error"} |->
              CASE s = "trace" -> TRACE
                [] s = "debug" -> DEBUG
                [] s = "info" -> INFO
                [] s = "warn" -> WARN
                [] s = "error" -> ERROR]
BadDirective == "x=y"

\* The values of RUST_LOG and of options.level the model draws from.
EnvDirectives == {"debug", "warn", BadDirective}
OptionDirectives == {"trace", "error", BadDirective}

Names == {"api", "db"}
Messages == {"disk low"}

\* LoggerOptions { level: Option<String>, json: Option<bool> }
LoggerOptions == [level : {None} \cup {Some(s) : s \in OptionDirectives},
                  json : {None, Some(TRUE), Some(FALSE)}]
OptionsArg == {None} \cup {Some(o) : o \in LoggerOptions}

\* The instants time::OffsetDateTime::now_utc() returns in the model.
Instants == {[year |-> 2026, month |-> 11, day |-> 5, hour |-> 9, minute |-> 3, second |-> 7],
             [year |-> 1999, month |-> 12, day |-> 31, hour |-> 23, minute |-> 59, second |-> 40]}

\* ---------------------------------------------------------------- filter
\* EnvFilter::try_new(dirs): Ok(filter) when the directive parses.
TryNew(dirs) == IF dirs \in DOMAIN LevelOf THEN Ok(LevelOf[dirs]) ELSE Err

\* EnvFilter::try_from_default_env(): Err when RUST_LOG is unset or does not parse.
TryFromDefaultEnv(rust_log) == IF rust_log = None THEN Err ELSE TryNew(rust_log[1])

\* options.unwrap_or(LoggerOptions { level: Some("info"), json: Some(false) })
UnwrapOpts(options) ==
  IF options = None THEN [level |-> Some("info"), json |-> Some(FALSE)] ELSE options[1]

\* A default of "debug" where the code says "info".
UnwrapLevelDebug(opts) == IF opts.level = None THEN "debug" ELSE opts.level[1]

\* opts.level.unwrap_or_else(|| "info".to_string())
UnwrapLevel(opts) == IF opts.level = None THEN "info" ELSE opts.level[1]

\* The configured level tried first and RUST_LOG only when it fails.
FilterLayerConfigFirst(rust_log, level) ==
  IF TryNew(level) # Err THEN TryNew(level) ELSE TryFromDefaultEnv(rust_log)

\* A RUST_LOG that is set decides alone: its parse error is not replaced.
FilterLayerStrict(rust_log, level) ==
  IF rust_log # None THEN TryNew(rust_log[1]) ELSE TryNew(level)

\* EnvFilter::try_from_default_env().or_else(|_| EnvFilter::try_new(&level))
FilterLayer(rust_log, level) ==
  IF TryFromDefaultEnv(rust_log) # Err THEN TryFromDefaultEnv(rust_log) ELSE TryNew(level)

\* A strict comparison where the filter's is inclusive.
EnabledStrict(filter, level) == level > filter

\* The filter's decision for an event of the given level.
Enabled(filter, level) == level >= filter

\* ---------------------------------------------------------------- renderer
\* owo_colors writes a foreground colour as the escape "ESC[<code>m", the value,
\* then the reset "ESC[39m". A rendered line is the sequence of these pieces.
Reset == "ESC[39m"
bright_black == "ESC[90m"
bright_blue == "ESC[94m"
bright_magenta == "ESC[95m"
red == "ESC[31m"
yellow == "ESC[33m"
cyan == "ESC[36m"
green == "ESC[32m"
purple == "ESC[35m"
Escapes == {Reset, bright_black, bright_blue, bright_magenta, red, yellow, cyan, green, purple}

Paint(colour, text) == <<colour>> \o text \o <<Reset>>

Digit == <<"0", "1", "2", "3", "4", "5", "6", "7", "8", "9">>
Pad2(n) == <<Digit[((n \div 10) % 10) + 1], Digit[(n % 10) + 1]>>
Pad4(n) == <<Digit[((n \div 1000) % 10) + 1], Digit[((n \div 100) % 10) + 1]>> \o Pad2(n)

\* now.format("[day]-[month]-[year] [hour]:[minute]:[second]")
FormatDate(now) ==
  Pad2(now.day) \o <<"-">> \o Pad2(now.month) \o <<"-">> \o Pad4(now.year) \o <<" ">>
    \o Pad2(now.hour) \o <<":">> \o Pad2(now.minute) \o <<":">> \o Pad2(now.second)

\* The colours of INFO and DEBUG exchanged.
LevelTagSwapped(level) ==
  CASE level = ERROR -> Paint(red, <<"ERROR">>)
    [] level = WARN -> Paint(yellow, <<"WARN">>)
    [] level = INFO -> Paint(green, <<"INFO">>)
    [] level = DEBUG -> Paint(cyan, <<"DEBUG">>)
    [] level = TRACE -> Paint(purple, <<"TRACE">>)

\* match *level { Level::ERROR => "ERROR".red(), ... }
LevelTag(level) ==
  CASE level = ERROR -> Paint(red, <<"ERROR">>)
    [] level = WARN -> Paint(yellow, <<"WARN">>)
    [] level = INFO -> Paint(cyan, <<"INFO">>)
    [] level = DEBUG -> Paint(green, <<"DEBUG">>)
    [] level = TRACE -> Paint(purple, <<"TRACE">>)

\* The pieces up to the message fields: timestamp, service name, level tag, space.
Prefix(service_name, level, now) ==
  Paint(bright_black, <<"[">>) \o Paint(bright_blue, FormatDate(now)) \o Paint(bright_black, <<"]">>)
    \o Paint(bright_black, <<"(">>) \o Paint(bright_magenta, <<service_name>>) \o Paint(bright_black, <<")">>)
    \o Paint(bright_black, <<"[">>) \o LevelTag(level) \o Paint(bright_black, <<"]">>)
    \o <<" ">>

\* The line without the newline that writeln! ends it with.
format_event_unterminated(service_name, level, message, now) ==
  Prefix(service_name, level, now) \o <<message>>

\* CustomFormat::format_event: the pieces written to the writer, in order.
format_event(service_name, level, message, now) ==
  Prefix(service_name, level, now) \o <<message>> \o <<"\n">>

\* ---------------------------------------------------------------- state
VARIABLES
  RUST_LOG,     \* the environment variable EnvFilter reads: None or Some(directive)
  LOGGER_INIT,  \* the OnceCell: "Incomplete", "Running" or "Complete"
  GLOBAL_INIT,  \* tracing's global default: "UNINITIALIZED" or "INITIALIZED"
  dispatch,     \* the subscriber this crate installed: None or Some([filter, service_name])
  pc,           \* each thread's position
  frame,        \* the arguments of each thread's construction call in progress
  subscriber,   \* the subscriber each initializing thread has built
  handle,       \* the Logger each thread holds, tagged with the name it was built with
  event,        \* the event each thread is writing: None or Some([level, message])
  buf,          \* the line each thread has formatted and not yet written
  stdout,       \* the sink: the lines written, in order
  first,        \* history: the arguments of the first construction call
  winner,       \* history: the arguments of the call that installed the pipeline
  installs,     \* history: how often set_global_default succeeded
  completions,  \* history: how often the initialization closure ran to its end
  ncalls,       \* history: the construction calls made
  emits,        \* history: the emit calls completed, counted by severity
  sent,         \* history: the lines each thread has formatted, in the order it emitted them
  writer        \* history: the thread that wrote each line of the sink

vars == <<RUST_LOG, LOGGER_INIT, GLOBAL_INIT, dispatch, pc, frame, subscriber, handle,
          event, buf, stdout, first, winner, installs, completions, ncalls, emits,
          sent, writer>>

envVars == <<RUST_LOG>>
initVars == <<LOGGER_INIT, GLOBAL_INIT, dispatch, subscriber, winner, installs, completions>>
emitVars == <<event, buf, stdout, emits, sent, writer>>

Init ==
  /\ RUST_LOG \in {None} \cup {Some(s) : s \in EnvDirectives}
  /\ LOGGER_INIT = "Incomplete"
  /\ GLOBAL_INIT \in {"UNINITIALIZED", "INITIALIZED"}
  /\ dispatch = None
  /\ pc = [t \in Threads |-> "idle"]
  /\ frame = [t \in Threads |-> None]
  /\ subscriber = [t \in Threads |-> None]
  /\ handle = [t \in Threads |-> None]
  /\ event = [t \in Threads |-> None]
  /\ buf = [t \in Threads |-> <<>>]
  /\ stdout = <<>>
  /\ first = None
  /\ winner = None
  /\ installs = 0
  /\ completions = 0
  /\ ncalls = 0
  /\ emits = [l \in {DEBUG, INFO, WARN, ERROR} |-> 0]
  /\ sent = [t \in Threads |-> <<>>]
  /\ writer = <<>>

\* ---------------------------------------------------------------- Logger::new
\* A caller that finds the cell Running does not park: it returns at once.
GetOrInitNoWait(t, a) ==
  CASE LOGGER_INIT = "Complete" ->
         /\ pc' = [pc EXCEPT ![t] = "idle"]
         /\ frame' = [frame EXCEPT ![t] = None]
         /\ handle' = [handle EXCEPT ![t] = Some(a.name)]
         /\ UNCHANGED LOGGER_INIT
    [] LOGGER_INIT = "Incomplete" ->
         /\ LOGGER_INIT' = "Running"
         /\ pc' = [pc EXCEPT ![t] = "init"]
         /\ frame' = [frame EXCEPT ![t] = Some(a)]
         /\ UNCHANGED handle
    [] LOGGER_INIT = "Running" ->
         /\ pc' = [pc EXCEPT ![t] = "idle"]
         /\ frame' = [frame EXCEPT ![t] = None]
         /\ handle' = [handle EXCEPT ![t] = Some(a.name)]
         /\ UNCHANGED LOGGER_INIT

\* A caller that finds the cell Running runs the closure too.
GetOrInitNoExclusion(t, a) ==
  CASE LOGGER_INIT = "Complete" ->
         /\ pc' = [pc EXCEPT ![t] = "idle"]
         /\ frame' = [frame EXCEPT ![t] = None]
         /\ handle' = [handle EXCEPT ![t] = Some(a.name)]
         /\ UNCHANGED LOGGER_INIT
    [] LOGGER_INIT # "Complete" ->
         /\ LOGGER_INIT' = "Running"
         /\ pc' = [pc EXCEPT ![t] = "init"]
         /\ frame' = [frame EXCEPT ![t] = Some(a)]
         /\ UNCHANGED handle

\* OnceCell::get_or_init as seen by a caller holding the arguments a:
\* Complete returns at once, Incomplete makes the caller the initializer,
\* Running parks the caller until the state changes.
get_or_init(t, a) ==
  CASE LOGGER_INIT = "Complete" ->
         /\ pc' = [pc EXCEPT ![t] = "idle"]
         /\ frame' = [frame EXCEPT ![t] = None]
         /\ handle' = [handle EXCEPT ![t] = Some(a.name)]
         /\ UNCHANGED LOGGER_INIT
    [] LOGGER_INIT = "Incomplete" ->
         /\ LOGGER_INIT' = "Running"
         /\ pc' = [pc EXCEPT ![t] = "init"]
         /\ frame' = [frame EXCEPT ![t] = Some(a)]
         /\ UNCHANGED handle
    [] LOGGER_INIT = "Running" ->
         /\ pc' = [pc EXCEPT ![t] = "wait"]
         /\ frame' = [frame EXCEPT ![t] = Some(a)]
         /\ UNCHANGED <<LOGGER_INIT, handle>>

\* The service name bound outside the closure: every call rebinds it.
NewRebinding(t, name, options) ==
  /\ pc[t] = "idle"
  /\ ncalls < MaxCalls
  /\ ncalls' = ncalls + 1
  /\ first' = IF first = None THEN Some([name |-> name, options |-> options]) ELSE first
  /\ get_or_init(t, [name |-> name, options |-> options])
  /\ dispatch' = IF dispatch = None THEN dispatch
                 ELSE Some([dispatch[1] EXCEPT !.service_name = name])
  /\ UNCHANGED <<RUST_LOG, GLOBAL_INIT, subscriber, winner, installs, completions>>
  /\ UNCHANGED emitVars

\* Logger::new(name, options): the call enters get_or_init.
New(t, name, options) ==
  /\ pc[t] = "idle"
  /\ ncalls < MaxCalls
  /\ ncalls' = ncalls + 1
  /\ first' = IF first = None THEN Some([name |-> name, options |-> options]) ELSE first
  /\ get_or_init(t, [name |-> name, options |-> options])
  /\ UNCHANGED <<RUST_LOG, GLOBAL_INIT, dispatch, subscriber, winner, installs, completions>>
  /\ UNCHANGED emitVars

\* A parked caller is woken only by a completed initialization.
WakeOnlyOnComplete(t) ==
  /\ pc[t] = "wait"
  /\ LOGGER_INIT = "Complete"
  /\ get_or_init(t, frame[t][1])
  /\ UNCHANGED <<RUST_LOG, GLOBAL_INIT, dispatch, subscriber, winner, installs, completions>>
  /\ UNCHANGED <<first, ncalls>>
  /\ UNCHANGED emitVars

\* A parked caller wakes when the cell is no longer Running.
Wake(t) ==
  /\ pc[t] = "wait"
  /\ LOGGER_INIT # "Running"
  /\ get_or_init(t, frame[t][1])
  /\ UNCHANGED <<RUST_LOG, GLOBAL_INIT, dispatch, subscriber, winner, installs, completions>>
  /\ UNCHANGED <<first, ncalls>>
  /\ UNCHANGED emitVars

\* A panic that leaves the cell Running, as a poisoned cell would stay.
UnwindPoisoned(t) ==
  /\ LOGGER_INIT' = "Running"
  /\ pc' = [pc EXCEPT ![t] = "panicked"]
  /\ frame' = [frame EXCEPT ![t] = None]
  /\ subscriber' = [subscriber EXCEPT ![t] = None]

\* A panic inside the closure unwinds through get_or_init: the cell goes back to
\* Incomplete and the calling thread ends without a handle.
Unwind(t) ==
  /\ LOGGER_INIT' = "Incomplete"
  /\ pc' = [pc EXCEPT ![t] = "panicked"]
  /\ frame' = [frame EXCEPT ![t] = None]
  /\ subscriber' = [subscriber EXCEPT ![t] = None]

\* The closure up to the registry: opts, level, format, filter_layer, subscriber.
BuildSubscriber(t) ==
  /\ pc[t] = "init"
  /\ LET a == frame[t][1]
         level == UnwrapLevel(UnwrapOpts(a.options))
         filter_layer == FilterLayer(RUST_LOG, level)
     IN /\ filter_layer # Err
        /\ subscriber' = [subscriber EXCEPT ![t] =
                            Some([filter |-> filter_layer[1], service_name |-> a.name])]
  /\ pc' = [pc EXCEPT ![t] = "set_global"]
  /\ UNCHANGED <<RUST_LOG, LOGGER_INIT, GLOBAL_INIT, dispatch, frame, handle, winner,
                 installs, completions, first, ncalls>>
  /\ UNCHANGED emitVars

\* The filter error dropped: the closure ends without a subscriber.
BuildSubscriberSwallow(t) ==
  /\ pc[t] = "init"
  /\ LET a == frame[t][1]
         level == UnwrapLevel(UnwrapOpts(a.options))
     IN FilterLayer(RUST_LOG, level) = Err
  /\ pc' = [pc EXCEPT ![t] = "done"]
  /\ UNCHANGED <<RUST_LOG, LOGGER_INIT, GLOBAL_INIT, dispatch, frame, subscriber, handle, winner,
                 installs, completions, first, ncalls>>
  /\ UNCHANGED emitVars

\* .unwrap() on a filter that could not be built.
BuildSubscriberPanic(t) ==
  /\ pc[t] = "init"
  /\ LET a == frame[t][1]
         level == UnwrapLevel(UnwrapOpts(a.options))
     IN FilterLayer(RUST_LOG, level) = Err
  /\ Unwind(t)
  /\ UNCHANGED <<RUST_LOG, GLOBAL_INIT, dispatch, handle, winner, installs, completions,
                 first, ncalls>>
  /\ UNCHANGED emitVars

\* A default set for the calling scope only and dropped at once: nothing is
\* installed process-wide.
SetDefaultScoped(t) ==
  /\ pc[t] = "set_global"
  /\ GLOBAL_INIT = "UNINITIALIZED"
  /\ subscriber' = [subscriber EXCEPT ![t] = None]
  /\ pc' = [pc EXCEPT ![t] = "done"]
  /\ UNCHANGED <<RUST_LOG, LOGGER_INIT, GLOBAL_INIT, dispatch, winner, installs, frame, handle,
                 completions, first, ncalls>>
  /\ UNCHANGED emitVars

\* tracing::subscriber::set_global_default(subscriber) when no default is set.
SetGlobalDefault(t) ==
  /\ pc[t] = "set_global"
  /\ GLOBAL_INIT = "UNINITIALIZED"
  /\ GLOBAL_INIT' = "INITIALIZED"
  /\ dispatch' = subscriber[t]
  /\ subscriber' = [subscriber EXCEPT ![t] = None]
  /\ winner' = frame[t]
  /\ installs' = installs + 1
  /\ pc' = [pc EXCEPT ![t] = "done"]
  /\ UNCHANGED <<RUST_LOG, LOGGER_INIT, frame, handle, completions, first, ncalls>>
  /\ UNCHANGED emitVars

\* .expect("Failed to set tracing subscriber") when a default is already set.
SetGlobalDefaultPanic(t) ==
  /\ pc[t] = "set_global"
  /\ GLOBAL_INIT # "UNINITIALIZED"
  /\ Unwind(t)
  /\ UNCHANGED <<RUST_LOG, GLOBAL_INIT, dispatch, handle, winner, installs, completions,
                 first, ncalls>>
  /\ UNCHANGED emitVars

\* The closure returns, the cell becomes Complete and new returns Self {}.
InitReturn(t) ==
  /\ pc[t] = "done"
  /\ LOGGER_INIT' = "Complete"
  /\ completions' = completions + 1
  /\ handle' = [handle EXCEPT ![t] = Some(frame[t][1].name)]
  /\ frame' = [frame EXCEPT ![t] = None]
  /\ pc' = [pc EXCEPT ![t] = "idle"]
  /\ UNCHANGED <<RUST_LOG, GLOBAL_INIT, dispatch, subscriber, winner, installs, first, ncalls>>
  /\ UNCHANGED emitVars

\* ---------------------------------------------------------------- emit
\* The severities a handle can emit: debug, info, warn, error.
EmitLevels == {DEBUG, INFO, WARN, ERROR}

RECURSIVE Sum(_, _)
Sum(f, S) == IF S = {} THEN 0 ELSE LET x == CHOOSE y \in S : TRUE IN f[x] + Sum(f, S \ {x})

InFlight == Cardinality({t \in Threads : pc[t] = "write"})

\* The line carries the name the emitting handle was built with.
EmitOwnName(t, level, message) ==
  /\ pc[t] = "idle"
  /\ handle[t] # None
  /\ Sum(emits, EmitLevels) + InFlight < MaxEmits
  /\ IF dispatch # None /\ Enabled(dispatch[1].filter, level)
       THEN /\ \E now \in Instants :
                 buf' = [buf EXCEPT ![t] = format_event(handle[t][1], level, message, now)]
            /\ sent' = [sent EXCEPT ![t] = Append(@, buf'[t])]
            /\ event' = [event EXCEPT ![t] = Some([level |-> level, message |-> message])]
            /\ pc' = [pc EXCEPT ![t] = "write"]
            /\ UNCHANGED emits
       ELSE /\ emits' = [emits EXCEPT ![level] = @ + 1]
            /\ UNCHANGED <<buf, event, pc, sent>>
  /\ UNCHANGED <<stdout, writer, frame, handle, first, ncalls>>
  /\ UNCHANGED envVars
  /\ UNCHANGED initVars

\* tracing::event!(level, "{}", message) on a handle: the filter decides, and an
\* enabled event is formatted into the thread's buffer; a disabled one is dropped.
Emit(t, level, message) ==
  /\ pc[t] = "idle"
  /\ handle[t] # None
  /\ Sum(emits, EmitLevels) + InFlight < MaxEmits
  /\ IF dispatch # None /\ Enabled(dispatch[1].filter, level)
       THEN /\ \E now \in Instants :
                 buf' = [buf EXCEPT ![t] = format_event(dispatch[1].service_name, level, message, now)]
            /\ sent' = [sent EXCEPT ![t] = Append(@, buf'[t])]
            /\ event' = [event EXCEPT ![t] = Some([level |-> level, message |-> message])]
            /\ pc' = [pc EXCEPT ![t] = "write"]
            /\ UNCHANGED emits
       ELSE /\ emits' = [emits EXCEPT ![level] = @ + 1]
            /\ UNCHANGED <<buf, event, pc, sent>>
  /\ UNCHANGED <<stdout, writer, frame, handle, first, ncalls>>
  /\ UNCHANGED envVars
  /\ UNCHANGED initVars

\* debug raising a TRACE event.
debugAsTrace(t, message) == Emit(t, TRACE, message)

debug(t, message) == Emit(t, DEBUG, message)
info(t, message) == Emit(t, INFO, message)
warn(t, message) == Emit(t, WARN, message)
error(t, message) == Emit(t, ERROR, message)

\* The line put in front of the sink's content.
WritePrepend(t) ==
  /\ pc[t] = "write"
  /\ stdout' = <<buf[t]>> \o stdout
  /\ writer' = <<t>> \o writer
  /\ emits' = [emits EXCEPT ![event[t][1].level] = @ + 1]
  /\ buf' = [buf EXCEPT ![t] = <<>>]
  /\ event' = [event EXCEPT ![t] = None]
  /\ pc' = [pc EXCEPT ![t] = "idle"]
  /\ UNCHANGED <<sent, frame, handle, first, ncalls>>
  /\ UNCHANGED envVars
  /\ UNCHANGED initVars

\* The line written to the sink in two writes, other writes allowed between.
WriteTorn(t) ==
  /\ pc[t] = "write"
  /\ LET k == IF Len(buf[t]) > 24 THEN 24 ELSE Len(buf[t])
     IN /\ stdout' = Append(stdout, SubSeq(buf[t], 1, k))
        /\ writer' = Append(writer, t)
        /\ buf' = [buf EXCEPT ![t] = SubSeq(@, k + 1, Len(@))]
        /\ IF k = Len(buf[t])
             THEN /\ emits' = [emits EXCEPT ![event[t][1].level] = @ + 1]
                  /\ event' = [event EXCEPT ![t] = None]
                  /\ pc' = [pc EXCEPT ![t] = "idle"]
             ELSE UNCHANGED <<emits, event, pc>>
  /\ UNCHANGED <<sent, frame, handle, first, ncalls>>
  /\ UNCHANGED envVars
  /\ UNCHANGED initVars

\* The formatted line goes to standard output in one write, and the call returns.
Write(t) ==
  /\ pc[t] = "write"
  /\ stdout' = Append(stdout, buf[t])
  /\ writer' = Append(writer, t)
  /\ emits' = [emits EXCEPT ![event[t][1].level] = @ + 1]
  /\ buf' = [buf EXCEPT ![t] = <<>>]
  /\ event' = [event EXCEPT ![t] = None]
  /\ pc' = [pc EXCEPT ![t] = "idle"]
  /\ UNCHANGED <<sent, frame, handle, first, ncalls>>
  /\ UNCHANGED envVars
  /\ UNCHANGED initVars

\* ---------------------------------------------------------------- specification
Next ==
  \E t \in Threads :
    \/ \E name \in Names, options \in OptionsArg : New(t, name, options)
    \/ Wake(t)
    \/ BuildSubscriber(t)
    \/ BuildSubscriberPanic(t)
    \/ SetGlobalDefault(t)
    \/ SetGlobalDefaultPanic(t)
    \/ InitReturn(t)
    \/ \E message \in Messages : debug(t, message)
    \/ \E message \in Messages : info(t, message)
    \/ \E message \in Messages : warn(t, message)
    \/ \E message \in Messages : error(t, message)
    \/ Write(t)

Spec == Init /\ [][Next]_vars

\* The construction protocol alone: the steps that read or write LOGGER_INIT.
\* The emit steps touch neither the cell nor a parked caller.
NextNew ==
  \E t \in Threads :
    \/ \E name \in Names, options \in OptionsArg : New(t, name, options)
    \/ Wake(t)
    \/ BuildSubscriber(t)
    \/ BuildSubscriberPanic(t)
    \/ SetGlobalDefault(t)
    \/ SetGlobalDefaultPanic(t)
    \/ InitReturn(t)

\* The scheduler runs every thread that can take a step of a call in progress;
\* whether a thread starts a construction call is the caller's choice.
Fairness ==
  \A t \in Threads :
    /\ WF_vars(Wake(t))
    /\ WF_vars(BuildSubscriber(t))
    /\ WF_vars(BuildSubscriberPanic(t))
    /\ WF_vars(SetGlobalDefault(t))
    /\ WF_vars(SetGlobalDefaultPanic(t))
    /\ WF_vars(InitReturn(t))

FairSpec == Init /\ [][NextNew]_vars /\ Fairness

\* ---------------------------------------------------------------- reading the sink
\* A line is read back piece by piece; a place past its end reads as "".
Tok(line, i) == IF i \in 1..Len(line) THEN line[i] ELSE ""
NotEscape(x) == x \notin Escapes
Strip(line) == SelectSeq(line, NotEscape)
HasAnsi(line) == \E i \in 1..Len(line) : line[i] \in Escapes

\* Without the escapes a plain-text line is "[", the 19 characters of the date,
\* "]", "(", the name, ")", "[", the tag, "]", " ", the message, the newline.
LineName(line) == Tok(Strip(line), 23)
LineTag(line) == Tok(Strip(line), 26)
IsPlainLine(line) == HasAnsi(line) /\ Tok(Strip(line), 1) = "["
IsJsonLine(line) == Tok(line, 1) = "{" /\ ~HasAnsi(line)

LevelName == [l \in Levels |->
                CASE l = TRACE -> "TRACE"
                  [] l = DEBUG -> "DEBUG"
                  [] l = INFO -> "INFO"
                  [] l = WARN -> "WARN"
                  [] l = ERROR -> "ERROR"]
TagColour == [l \in Levels |->
                CASE l = TRACE -> "ESC[35m"
                  [] l = DEBUG -> "ESC[32m"
                  [] l = INFO -> "ESC[36m"
                  [] l = WARN -> "ESC[33m"
                  [] l = ERROR -> "ESC[31m"]

\* The lines of the sink tagged with the severity l.
CountTag(l) == Cardinality({i \in 1..Len(stdout) : LineTag(stdout[i]) = LevelName[l]})

Newlines(line) == Cardinality({i \in 1..Len(line) : line[i] = "\n"})
RECURSIVE SinkLines(_)
SinkLines(s) == IF s = <<>> THEN 0 ELSE Newlines(Head(s)) + SinkLines(Tail(s))

Installed == dispatch # None
Threshold == dispatch[1].filter
ConfiguredLevel(a) == UnwrapOpts(a.options).level
\* The level a call's options ask for, "info" when they name none.
Configured(a) ==
  IF a.options = None \/ a.options[1].level = None THEN "info" ELSE a.options[1].level[1]
ConfiguredJson(a) == UnwrapOpts(a.options).json

\* ---------------------------------------------------------------- claims
\* C1: the level, json and name of the first construction call are the ones in
\* force for every later emit: the installed name and threshold are those the
\* first call resolves to, and the lines are JSON exactly when the first call
\* asked for json. Stated for the runs in which the first call is the one that
\* installed the pipeline.
C1_FirstCallSettingsGovern ==
  (winner # None /\ winner = first) =>
    /\ dispatch[1].service_name = first[1].name
    /\ Ok(Threshold) = FilterLayer(RUST_LOG, UnwrapLevel(UnwrapOpts(first[1].options)))
    /\ \A i \in 1..Len(stdout) :
         IF ConfiguredJson(first[1]) = Some(TRUE)
           THEN IsJsonLine(stdout[i])
           ELSE IsPlainLine(stdout[i])

\* C2: under every interleaving of the construction calls the pipeline is
\* installed at most once and the closure runs to its end at most once, and
\* both have happened exactly once when every thread's call has returned.
C2_InitExactlyOnce ==
  /\ installs <= 1
  /\ completions <= 1
  /\ (\A t \in Threads : handle[t] # None) => (installs = 1 /\ completions = 1)

C2_Witness ==
  /\ \A t \in Threads : handle[t] # None /\ pc[t] = "idle"
  /\ ncalls >= NumThreads
  /\ installs = 1

\* C3: a RUST_LOG that parses is the threshold whatever level the options
\* give; with RUST_LOG=warn and level "trace" no INFO line is written and every
\* completed warn call wrote its line; the lines keep the plain-text mode.
C3_OverrideWins ==
  (Installed /\ TryFromDefaultEnv(RUST_LOG) # Err) =>
    /\ Threshold = LevelOf[RUST_LOG[1]]
    /\ (RUST_LOG = Some("warn") /\ ConfiguredLevel(winner[1]) = Some("trace")) =>
         (CountTag(INFO) = 0 /\ CountTag(WARN) = emits[WARN])
    /\ \A i \in 1..Len(stdout) : IsPlainLine(stdout[i])

C3_Witness ==
  /\ RUST_LOG = Some("warn")
  /\ winner # None
  /\ ConfiguredLevel(winner[1]) = Some("trace")
  /\ emits[INFO] = 1
  /\ emits[WARN] = 1
  /\ Len(stdout) = 1

\* C4: with json=true in the winning call every written line is one JSON object
\* free of colour escapes; with json false or unset every written line is the
\* colourised bracketed text.
C4_ModeFollowsJson ==
  winner # None =>
    \A i \in 1..Len(stdout) :
      IF ConfiguredJson(winner[1]) = Some(TRUE)
        THEN IsJsonLine(stdout[i])
        ELSE IsPlainLine(stdout[i])

\* C5: once the pipeline is installed, the completed emit calls of a severity
\* each wrote a line when the severity is at or above the threshold and wrote
\* none when it is below; what the filter passes at a severity it passes at
\* every higher one.
C5_WrittenIffAtOrAboveThreshold ==
  /\ ~Installed => stdout = <<>>
  /\ Installed =>
       /\ \A l \in EmitLevels : CountTag(l) = IF l >= Threshold THEN emits[l] ELSE 0
       /\ \A t \in Threads : pc[t] = "write" => event[t][1].level >= Threshold
       /\ \A s1, s2 \in Levels :
            (s1 < s2 /\ Enabled(Threshold, s1)) => Enabled(Threshold, s2)

C5_Witness ==
  /\ Installed
  /\ Len(stdout) = 1
  /\ \E l \in EmitLevels : l < Threshold /\ emits[l] = 1

\* C6: every line, written or formatted, carries the name argument of the call
\* that installed the pipeline, whatever name the emitting handle was built with.
C6_ServiceNameIsWinners ==
  /\ winner = None => (stdout = <<>> /\ \A t \in Threads : buf[t] = <<>>)
  /\ winner # None =>
       /\ \A i \in 1..Len(stdout) : LineName(stdout[i]) = winner[1].name
       /\ \A t \in Threads : pc[t] = "write" => LineName(buf[t]) = winner[1].name

C6_Witness ==
  /\ winner # None
  /\ Len(stdout) = 1
  /\ \E t \in Threads :
       /\ pc[t] = "write"
       /\ handle[t][1] # winner[1].name

\* C7: with RUST_LOG unset, a winning call without options, or with options
\* that have no level, filters at INFO: no DEBUG line is written and every
\* completed info, warn and error call wrote its line.
C7_DefaultThresholdInfo ==
  (/\ RUST_LOG = None
   /\ winner # None
   /\ (winner[1].options = None \/ winner[1].options[1].level = None)) =>
    /\ Threshold = INFO
    /\ CountTag(DEBUG) = 0
    /\ \A l \in {INFO, WARN, ERROR} : CountTag(l) = emits[l]

C7_Witness ==
  /\ RUST_LOG = None
  /\ winner # None
  /\ winner[1].options # None
  /\ winner[1].options[1].level = None
  /\ emits[DEBUG] = 1
  /\ emits[INFO] = 1
  /\ Len(stdout) = 1

\* The two instants as the format description prints them.
DateTexts ==
  {<<"0", "5", "-", "1", "1", "-", "2", "0", "2", "6", " ", "0", "9", ":", "0", "3", ":", "0", "7">>,
   <<"3", "1", "-", "1", "2", "-", "1", "9", "9", "9", " ", "2", "3", ":", "5", "9", ":", "4", "0">>}

PlainLine(name, l, message, date) ==
  <<"ESC[90m", "[", "ESC[39m", "ESC[94m">> \o date
    \o <<"ESC[39m", "ESC[90m", "]", "ESC[39m",
         "ESC[90m", "(", "ESC[39m", "ESC[95m", name, "ESC[39m", "ESC[90m", ")", "ESC[39m",
         "ESC[90m", "[", "ESC[39m", TagColour[l], LevelName[l], "ESC[39m", "ESC[90m", "]", "ESC[39m",
         " ", message, "\n">>

\* C8: every line is '[' date ']' '(' name ')' '[' TAG ']' ' ' message newline in
\* this order, the date as DD-MM-YYYY HH:MM:SS, the tag the upper-case name of
\* the event's severity in that severity's colour.
C8_PlainTextLayout ==
  /\ \A i \in 1..Len(stdout) :
       \E name \in Names, l \in EmitLevels, message \in Messages, date \in DateTexts :
         stdout[i] = PlainLine(name, l, message, date)
  /\ \A t \in Threads : pc[t] = "write" =>
       \E date \in DateTexts :
         buf[t] = PlainLine(dispatch[1].service_name, event[t][1].level, event[t][1].message, date)

C8_Witness ==
  \E i \in 1..Len(stdout), date \in DateTexts :
    /\ stdout[i] = PlainLine("api", WARN, "disk low", date)
    /\ Strip(stdout[i]) = <<"[">> \o date \o <<"]", "(", "api", ")", "[", "WARN", "]", " ", "disk low", "\n">>

C10_OneLinePerAcceptedCall ==
  /\ SinkLines(stdout) =
       IF Installed THEN Sum(emits, {l \in EmitLevels : l >= Threshold}) ELSE 0
  /\ \A i \in 1..Len(stdout) :
       Newlines(stdout[i]) = 1 /\ Tok(stdout[i], Len(stdout[i])) = "\n"

C10_Witness ==
  /\ Installed
  /\ Len(stdout) = 1
  /\ SinkLines(stdout) = 1
  /\ Sum(emits, EmitLevels) = 2

\* The threads running the initialization closure.
Initializers == {t \in Threads : pc[t] \in {"init", "set_global", "done"}}

\* C11: a thread holds a returned handle only when the cell is Complete and the
\* pipeline is installed; a caller that found the cell Running is still parked
\* or has returned after the completion.
C11_HandleImpliesInitialized ==
  \A t \in Threads :
    handle[t] # None =>
      /\ LOGGER_INIT = "Complete"
      /\ Installed
      /\ GLOBAL_INIT = "INITIALIZED"

C11_Witness ==
  \E t, u \in Threads :
    /\ handle[t] # None
    /\ pc[u] = "wait"
    /\ handle[u] = None

\* C12: once the pipeline is installed no step, construction or emit, changes
\* the threshold or the service name.
C12_PipelineImmutable ==
  [][Installed => dispatch' = dispatch]_vars

C12_Witness ==
  /\ Installed
  /\ LOGGER_INIT = "Complete"
  /\ ncalls = 2
  /\ Sum(emits, EmitLevels) = 2
  /\ \E t \in Threads : handle[t] # None /\ handle[t][1] # dispatch[1].service_name

\* C13 as stated: the cell only moves Incomplete -> Running -> Complete, one
\* initializer at a time, Complete for good, and there is no other transition.
C13_OnlyForwardTransitions ==
  [][/\ Cardinality(Initializers') <= 1
     /\ LOGGER_INIT = "Complete" => LOGGER_INIT' = "Complete"
     /\ LOGGER_INIT' # LOGGER_INIT =>
          \/ LOGGER_INIT = "Incomplete" /\ LOGGER_INIT' = "Running"
          \/ LOGGER_INIT = "Running" /\ LOGGER_INIT' = "Complete"]_vars

\* C13 as amended: besides Incomplete -> Running (a caller becomes the
\* initializer) and Running -> Complete (the closure returned), the cell moves
\* Running -> Incomplete when the initializer panics, and in no other way; the
\* cell is Running exactly while one thread runs the closure, and Complete is
\* for good.
C13_Lifecycle ==
  [][/\ Cardinality(Initializers') <= 1
     /\ (LOGGER_INIT' = "Running") <=> (Initializers' # {})
     /\ LOGGER_INIT = "Complete" => LOGGER_INIT' = "Complete"
     /\ LOGGER_INIT' # LOGGER_INIT =>
          \/ /\ LOGGER_INIT = "Incomplete" /\ LOGGER_INIT' = "Running"
             /\ \E t \in Threads : pc[t] \in {"idle", "wait"} /\ pc'[t] = "init"
          \/ /\ LOGGER_INIT = "Running" /\ LOGGER_INIT' = "Complete"
             /\ \E t \in Threads : pc[t] = "done" /\ pc'[t] = "idle"
          \/ /\ LOGGER_INIT = "Running" /\ LOGGER_INIT' = "Incomplete"
             /\ \E t \in Threads : pc[t] \in {"init", "set_global"} /\ pc'[t] = "panicked"]_vars

C13_Witness ==
  /\ LOGGER_INIT = "Complete"
  /\ \E t \in Threads : pc[t] = "panicked"

\* C14: a failing initialization (the filter cannot be built, or a global
\* default is already set) ends the initializing call in a panic: the caller
\* gets no handle, nothing is installed, the failed caller never runs again, and
\* the closure is entered only by a construction call that starts or was parked.
C14_FailureAbortsWithoutRetry ==
  [][\A t \in Threads :
       /\ (pc[t] \in {"init", "set_global"} /\ pc'[t] = "panicked") =>
            /\ handle'[t] = None
            /\ dispatch = None /\ dispatch' = None
            /\ GLOBAL_INIT' = GLOBAL_INIT
            /\ installs' = installs
       /\ (pc[t] = "init" /\ FilterLayer(RUST_LOG, Configured(frame[t][1])) = Err) =>
            pc'[t] \in {"init", "panicked"}
       /\ (pc[t] = "set_global" /\ GLOBAL_INIT # "UNINITIALIZED") =>
            pc'[t] \in {"set_global", "panicked"}
       /\ pc[t] = "panicked" => pc'[t] = "panicked"
       /\ (pc'[t] = "init" /\ pc[t] # "init") => pc[t] \in {"idle", "wait"}]_vars

C14_Witness ==
  /\ GLOBAL_INIT = "INITIALIZED"
  /\ dispatch = None
  /\ LOGGER_INIT = "Incomplete"
  /\ \E t \in Threads : pc[t] = "panicked" /\ handle[t] = None

\* The first construction call could not build its filter.
FirstFailedAtFilter ==
  first # None /\ FilterLayer(RUST_LOG, Configured(first[1])) = Err

\* C15: when the first call failed building the filter, the cell is Incomplete
\* again once nobody runs the closure, the closure a later call runs builds the
\* subscriber from that call's own name and level, and the pipeline installed
\* is that call's.
C15_NextCallInitializes ==
  FirstFailedAtFilter =>
    /\ (Initializers = {} /\ completions = 0) => LOGGER_INIT = "Incomplete"
    /\ \A t \in Threads :
         pc[t] = "set_global" =>
           subscriber[t] = Some([filter |-> LevelOf[Configured(frame[t][1])],
                                 service_name |-> frame[t][1].name])
    /\ winner # None =>
         /\ winner # first
         /\ dispatch = Some([filter |-> LevelOf[Configured(winner[1])],
                             service_name |-> winner[1].name])

C15_Witness ==
  /\ FirstFailedAtFilter
  /\ winner # None
  /\ winner[1].name # first[1].name
  /\ LOGGER_INIT = "Complete"
  /\ Len(stdout) = 1
  /\ LineName(stdout[1]) = winner[1].name

\* The lines of the sink written by thread t, in sink order.
RECURSIVE ByThread(_, _, _)
ByThread(s, w, t) ==
  IF s = <<>> \/ w = <<>> THEN <<>>
  ELSE (IF Head(w) = t THEN <<Head(s)>> ELSE <<>>) \o ByThread(Tail(s), Tail(w), t)

\* The lines thread t has emitted whose emit call has returned.
Returned(t) == IF pc[t] = "write" THEN SubSeq(sent[t], 1, Len(sent[t]) - 1) ELSE sent[t]

C16_CrossThreadWitness ==
  /\ Len(writer) = 2
  /\ writer[1] > writer[2]

\* The sink as one stream of pieces, and the stream cut after every newline.
RECURSIVE Flat(_)
Flat(s) == IF s = <<>> THEN <<>> ELSE Head(s) \o Flat(Tail(s))

RECURSIVE Cut(_, _)
Cut(s, acc) ==
  IF s = <<>> THEN (IF acc = <<>> THEN <<>> ELSE <<acc>>)
  ELSE IF Head(s) = "\n" THEN <<Append(acc, "\n")>> \o Cut(Tail(s), <<>>)
  ELSE Cut(Tail(s), Append(acc, Head(s)))

\* C17: the stream of the sink, cut after every newline, holds only whole
\* lines: each is the timestamp, service name, level tag, message and newline
\* of one event, with no piece of another event inside, and each is one write.
C17_LinesAtomic ==
  LET chunks == Cut(Flat(stdout), <<>>)
  IN /\ chunks = stdout
     /\ \A i \in 1..Len(chunks) :
          /\ Len(chunks[i]) = 48
          /\ Len(Strip(chunks[i])) = 30
          /\ Tok(Strip(chunks[i]), 1) = "["
          /\ Tok(Strip(chunks[i]), 21) = "]"
          /\ LineName(chunks[i]) \in Names
          /\ LineTag(chunks[i]) \in {LevelName[l] : l \in EmitLevels}
          /\ Tok(Strip(chunks[i]), 29) \in Messages
          /\ Tok(Strip(chunks[i]), 30) = "\n"

C17_Witness ==
  /\ Len(stdout) = 2
  /\ writer[1] # writer[2]
  /\ stdout[1] # stdout[2]

\* C18: under a fair scheduler a parked construction call does not stay
\* parked: it leaves the barrier, as the initializer or by returning, and once
\* the cell is Complete it returns a handle.
C18_NoCallBlocksForever ==
  \A t \in Threads :
    /\ (pc[t] = "wait") ~> (pc[t] # "wait")
    /\ (pc[t] = "wait" /\ LOGGER_INIT = "Complete") ~> (handle[t] # None)

C18_Witness ==
  \E t, u \in Threads :
    /\ pc[u] = "panicked"
    /\ pc[t] = "wait"
    /\ LOGGER_INIT = "Incomplete"

\* C19: no line of the sink, and no event being written, is a TRACE event:
\* every line is tagged DEBUG, INFO, WARN or ERROR; under the thresholds trace
\* and debug alike every completed emit call wrote its line.
C19_NoTraceLine ==
  /\ CountTag(TRACE) = 0
  /\ \A i \in 1..Len(stdout) : LineTag(stdout[i]) \in {LevelName[l] : l \in EmitLevels}
  /\ \A t \in Threads : pc[t] = "write" => event[t][1].level \in EmitLevels
  /\ (Installed /\ Threshold \in {TRACE, DEBUG}) =>
       \A l \in EmitLevels : CountTag(l) = emits[l]

C19_Witness ==
  /\ Installed
  /\ Threshold = TRACE
  /\ CountTag(DEBUG) = 1
  /\ Len(stdout) = 2

====
